---- MODULE Spec2Model ----
(***************************************************************************)
(* Model of src/App.jsx: the App view-state controller (handleFileSelect,  *)
(* pollJobStatus, handleReset) with its asynchronous callbacks, and the    *)
(* UploadZone component (handleDrop, handleFileInput, click handlers).     *)
(*                                                                         *)
(* Every await of the source splits a handler into steps; one action of    *)
(* the model is one such step, run to completion on the UI thread.         *)
(***************************************************************************)
EXTENDS Integers, Sequences, FiniteSets, TLC

(* ------------------------------ bounds --------------------------------- *)

\* number of files the user submits in one run
MaxJobs == 3

\* number of times the interval timers fire in one run
MaxTicks == 2

\* number of onFileSelect calls one mounted UploadZone makes
MaxCalls == 2

\* length of the grade strings given to getGradeColor
MaxGradeLen == 2

\* number of times the interval timers fire in a run whose requests all succeed
MaxLiveTicks == 3

(* ----------------------------- constants ------------------------------- *)

\* useState(null): no job id, no results
NULL == 0

\* setProgress(10) at the start of a submission
UploadProgress == 10

\* useState(0) / setProgress(0)
InitialProgress == 0

Jobs == 1..MaxJobs

\* setMessage('Uploading your proof...')
UploadingMessage == "Uploading your proof..."

(* ------------------------- backend responses --------------------------- *)

\* Status payloads of GET /api/grade/{id} while the job is not finished.
NonTerminalData ==
    { [status |-> "queued",     progress |-> 20, message |-> "Queued"],
      [status |-> "processing", progress |-> 60, message |-> "Grading"] }

DoneData == [status |-> "done", progress |-> 100, message |-> "Complete"]

FailedData == [status |-> "failed", progress |-> 60, message |-> "Error"]

\* What the status endpoint answers for a job in backend phase ph.
StatusDataFor(ph) ==
    CASE ph = "running" -> NonTerminalData
      [] ph = "done"    -> {DoneData}
      [] ph = "failed"  -> {FailedData}
      [] OTHER          -> {}

\* The payload of GET /api/results/{id}: the grading result of job id.
ResultsData(id) == id

(* ------------------------------ files ---------------------------------- *)

ImagePrefix == <<"i", "m", "a", "g", "e", "/">>

MimePng   == <<"i", "m", "a", "g", "e", "/", "p", "n", "g">>
MimeBare  == <<"i", "m", "a", "g", "e", "/">>
MimeShort == <<"i", "m", "a", "g">>
MimeNone  == <<>>
MimePdf   == <<"a", "p", "p", "/", "p", "d", "f">>
MimeText  == <<"t", "x", "t", "/", "i", "m", "a", "g", "e", "/">>

MimeTypes == {MimePng, MimeBare, MimeShort, MimeNone, MimePdf, MimeText}

\* e.dataTransfer.files / e.target.files: empty, or holding one file
FileLists == {<<>>} \cup { <<[type |-> t]>> : t \in MimeTypes }

\* String.prototype.startsWith
StartsWith(s, p) ==
    /\ Len(s) >= Len(p)
    /\ SubSeq(s, 1, Len(p)) = p

VARIABLES
    currentStep,   \* useState('upload')
    jobId,         \* useState(null)
    progress,      \* useState(0)
    message,       \* useState('')
    results,       \* useState(null)
    nsel,          \* number of handleFileSelect calls so far
    submits,       \* handleFileSelect calls awaiting the POST response
    timers,        \* job ids whose setInterval timer is active
    nticks,        \* number of interval firings so far
    tickBudget,    \* number of interval firings explored in the run
    calls,         \* interval callbacks suspended at an await
    backend,       \* per job: phase of the job in the backend
    lastSeq,       \* per job: firing number of the status response applied last
    terminated,    \* jobs one of whose ticks saw done/failed or a failed status request
    left,          \* jobs during whose processing the view left 'processing'
    ev,            \* what the last step did: handler, job, alert, request issued
    alerts,        \* per job: number of alert() calls made by its handlers
    isProcessing,  \* UploadZone prop
    isDragging,    \* UploadZone useState(false)
    dialogOpen,    \* the browser's file dialog of the hidden input is open
    selected,      \* the files the UploadZone has passed to onFileSelect, in order
    zev,           \* the last UploadZone interaction and whether it called onFileSelect
    grade,         \* ResultsView: results.total_grade
    gradeColor     \* ResultsView: the background getGradeColor returned for grade

appVars == <<currentStep, jobId, progress, message, results, nsel, submits,
             timers, nticks, tickBudget, calls, backend, lastSeq, terminated, left, ev, alerts>>

zoneVars == <<isProcessing, isDragging, dialogOpen, selected, zev>>

viewVars == <<grade, gradeColor>>

vars == <<appVars, zoneVars, viewVars>>

(* ---------------------------- UploadZone -------------------------------- *)

\* handleDrop: const file = e.dataTransfer.files[0];
\* if (file && file.type.startsWith('image/')) onFileSelect(file)
HandleDropCalls(files) ==
    /\ Len(files) > 0
    /\ StartsWith(files[1].type, ImagePrefix)

\* handleFileInput: const file = e.target.files[0]; if (file) onFileSelect(file)
HandleFileInputCalls(files) ==
    Len(files) > 0

\* Mutant of ZoneReceivesEvents: the 'pointer-events-none' class is dropped.
ZoneReceivesEventsAlways ==
    TRUE

\* The zone div carries 'pointer-events-none' while isProcessing, so the
\* browser dispatches no click, dragover, dragleave or drop event to it.
ZoneReceivesEvents ==
    ~isProcessing

\* The hidden input and the Choose File button are disabled={isProcessing}.
ControlsEnabled ==
    ~isProcessing

ZEv(kind, files, called) ==
    [kind |-> kind, files |-> files, called |-> called]

\* onFileSelect(file) as seen from the UploadZone
OnFileSelect(kind, files) ==
    /\ selected' = Append(selected, files[1])
    /\ zev' = ZEv(kind, files, TRUE)

NoFileSelect(kind, files) ==
    /\ selected' = selected
    /\ zev' = ZEv(kind, files, FALSE)

\* onClick={() => !isProcessing && fileInputRef.current?.click()}
ZoneClick ==
    /\ ~dialogOpen
    /\ dialogOpen' = (ZoneReceivesEvents /\ ~isProcessing /\ ControlsEnabled)
    /\ NoFileSelect("click", <<>>)
    /\ UNCHANGED <<isProcessing, isDragging>>
    /\ UNCHANGED <<appVars, viewVars>>

\* Choose File button: e.stopPropagation(); fileInputRef.current?.click()
ButtonClick ==
    /\ ~dialogOpen
    /\ dialogOpen' = (ZoneReceivesEvents /\ ControlsEnabled)
    /\ NoFileSelect("button", <<>>)
    /\ UNCHANGED <<isProcessing, isDragging>>
    /\ UNCHANGED <<appVars, viewVars>>

\* The user confirms the file dialog: change event, handleFileInput
FileInputChange ==
    /\ dialogOpen
    /\ Len(selected) < MaxCalls
    /\ \E files \in FileLists :
          IF ControlsEnabled /\ HandleFileInputCalls(files)
          THEN OnFileSelect("input", files)
          ELSE NoFileSelect("input", files)
    /\ dialogOpen' = FALSE
    /\ UNCHANGED <<isProcessing, isDragging>>
    /\ UNCHANGED <<appVars, viewVars>>

\* The user cancels the file dialog: no change event
DialogCancel ==
    /\ dialogOpen
    /\ dialogOpen' = FALSE
    /\ NoFileSelect("cancel", <<>>)
    /\ UNCHANGED <<isProcessing, isDragging>>
    /\ UNCHANGED <<appVars, viewVars>>

\* handleDragOver: e.preventDefault(); setIsDragging(true)
DragOver ==
    /\ ~dialogOpen
    /\ isDragging' = IF ZoneReceivesEvents THEN TRUE ELSE isDragging
    /\ NoFileSelect("dragover", <<>>)
    /\ UNCHANGED <<isProcessing, dialogOpen>>
    /\ UNCHANGED <<appVars, viewVars>>

\* handleDragLeave: setIsDragging(false)
DragLeave ==
    /\ ~dialogOpen
    /\ isDragging' = IF ZoneReceivesEvents THEN FALSE ELSE isDragging
    /\ NoFileSelect("dragleave", <<>>)
    /\ UNCHANGED <<isProcessing, dialogOpen>>
    /\ UNCHANGED <<appVars, viewVars>>

\* handleDrop: e.preventDefault(); setIsDragging(false); maybe onFileSelect
Drop ==
    /\ ~dialogOpen
    /\ Len(selected) < MaxCalls
    /\ \E files \in FileLists :
          IF ZoneReceivesEvents /\ HandleDropCalls(files)
          THEN OnFileSelect("drop", files)
          ELSE NoFileSelect("drop", files)
    /\ isDragging' = IF ZoneReceivesEvents THEN FALSE ELSE isDragging
    /\ UNCHANGED <<isProcessing, dialogOpen>>
    /\ UNCHANGED <<appVars, viewVars>>

(* ---------------------------- ResultsView ------------------------------- *)

GradeChars == {"A", "B", "C", "D", "F", "a", "b", "+", "-"}

\* results.total_grade: the strings over GradeChars of length 0..MaxGradeLen
Grades ==
    UNION { [1..n -> GradeChars] : n \in 0..MaxGradeLen }

GradientA     == "linear-gradient(to bottom right, #10b981, #059669)"
GradientB     == "linear-gradient(to bottom right, #4A9FD8, #2E6FA8)"
GradientC     == "linear-gradient(to bottom right, #FFD966, #FFA500)"
GradientWorst == "linear-gradient(to bottom right, #ef4444, #dc2626)"

\* the grade has not been rendered yet
NoColor == ""

\* Mutant of getGradeColor: the grade is compared with ===, not with startsWith.
getGradeColorExact(g) ==
    IF g = <<"A">> THEN GradientA
    ELSE IF g = <<"B">> THEN GradientB
    ELSE IF g = <<"C">> THEN GradientC
    ELSE GradientWorst

getGradeColor(g) ==
    IF StartsWith(g, <<"A">>) THEN GradientA
    ELSE IF StartsWith(g, <<"B">>) THEN GradientB
    ELSE IF StartsWith(g, <<"C">>) THEN GradientC
    ELSE GradientWorst

\* ResultsView renders the grade card: background: getGradeColor(results.total_grade)
RenderGrade ==
    /\ gradeColor = NoColor
    /\ gradeColor' = getGradeColor(grade)
    /\ UNCHANGED grade
    /\ UNCHANGED <<appVars, zoneVars>>

\* ResultsView is mounted again with another grading result
NewGrade ==
    /\ gradeColor # NoColor
    /\ grade' \in Grades
    /\ gradeColor' = NoColor
    /\ UNCHANGED <<appVars, zoneVars>>

(* -------------------------------- App ----------------------------------- *)

Ev(act, job, alert, req) ==
    [act |-> act, job |-> job, alert |-> alert, req |-> req]

\* alert(...) raised by a handler of job id
Alert(id) ==
    alerts' = [alerts EXCEPT ![id] = @ + 1]

\* clearInterval(interval) of the timer created for job id
ClearInterval(id) ==
    timers \ {id}

\* setCurrentStep(s), with the record of the job whose processing the view leaves
SetCurrentStep(s) ==
    /\ currentStep' = s
    /\ left' = IF currentStep = "processing" /\ s # "processing"
               THEN left \cup {nsel}
               ELSE left

\* handleFileSelect up to the await of the POST
HandleFileSelect ==
    /\ SetCurrentStep("processing")
    /\ progress' = UploadProgress
    /\ message' = UploadingMessage
    /\ nsel' = nsel + 1
    /\ submits' = submits \cup {nsel + 1}
    /\ ev' = Ev("select", nsel + 1, FALSE, "submit")
    /\ UNCHANGED <<jobId, results, timers, nticks, calls, backend, lastSeq, terminated,
                   alerts>>

\* The UploadZone rendered by App in the upload step (isProcessing={false})
\* calls onFileSelect={handleFileSelect}.  The zone is taken to be gone as soon
\* as the step is no longer upload (its exit animation is not modelled).
SelectFile ==
    /\ currentStep = "upload"
    /\ nsel < MaxJobs
    /\ ZoneReceivesEvents /\ ControlsEnabled
    /\ \E files \in FileLists :
          HandleDropCalls(files) \/ HandleFileInputCalls(files)
    /\ HandleFileSelect
    /\ UNCHANGED <<tickBudget, zoneVars, viewVars>>

\* Mutant of SubmitOk: setJobId(newJobId) is left out.
SubmitOkNoSetJobId(s) ==
    /\ s \in submits
    /\ submits' = submits \ {s}
    /\ timers' = timers \cup {s}
    /\ backend' = [backend EXCEPT ![s] = "running"]
    /\ ev' = Ev("submitOk", s, FALSE, "none")
    /\ UNCHANGED <<currentStep, jobId, progress, message, results, nsel, nticks, calls,
                   lastSeq, terminated, left, alerts>>
    /\ UNCHANGED <<tickBudget, zoneVars, viewVars>>

\* POST /api/grade answered ok: setJobId(newJobId); pollJobStatus(newJobId)
SubmitOk(s) ==
    /\ s \in submits
    /\ submits' = submits \ {s}
    /\ jobId' = s
    /\ timers' = timers \cup {s}
    /\ backend' = [backend EXCEPT ![s] = "running"]
    /\ ev' = Ev("submitOk", s, FALSE, "none")
    /\ UNCHANGED <<currentStep, progress, message, results, nsel, nticks, calls,
                   lastSeq, terminated, left, alerts>>
    /\ UNCHANGED <<tickBudget, zoneVars, viewVars>>

\* POST /api/grade rejected or not ok: catch of handleFileSelect
SubmitError(s) ==
    /\ s \in submits
    /\ submits' = submits \ {s}
    /\ SetCurrentStep("upload")
    /\ ev' = Ev("submitError", s, TRUE, "none")
    /\ Alert(s)
    /\ UNCHANGED <<jobId, progress, message, results, nsel, timers, nticks, calls,
                   backend, lastSeq, terminated>>
    /\ UNCHANGED <<tickBudget, zoneVars, viewVars>>

\* The interval fires: the callback issues the status request and awaits it
Tick(id) ==
    /\ id \in timers
    /\ nticks < tickBudget
    /\ nticks' = nticks + 1
    /\ calls' = calls \cup {[id |-> id, seq |-> nticks + 1, pc |-> "status"]}
    /\ ev' = Ev("tick", id, FALSE, "status")
    /\ UNCHANGED <<currentStep, jobId, progress, message, results, nsel, submits,
                   timers, backend, lastSeq, terminated, left, alerts>>
    /\ UNCHANGED <<tickBudget, zoneVars, viewVars>>

\* The backend finishes a job
BackendFinish(id) ==
    /\ backend[id] = "running"
    /\ \E ph \in {"done", "failed"} : backend' = [backend EXCEPT ![id] = ph]
    /\ UNCHANGED <<currentStep, jobId, progress, message, results, nsel, submits,
                   timers, nticks, calls, lastSeq, terminated, left, ev, alerts>>
    /\ UNCHANGED <<tickBudget, zoneVars, viewVars>>

\* Mutant of OnStatusDone: the results are not fetched.
OnStatusDoneNoFetch(c) ==
    /\ timers' = ClearInterval(c.id)
    /\ terminated' = terminated \cup {c.id}
    /\ calls' = calls \ {c}
    /\ ev' = Ev("statusDone", c.id, FALSE, "none")
    /\ UNCHANGED <<currentStep, left, alerts>>

\* status === 'done': clearInterval, then the results request is awaited
OnStatusDone(c) ==
    /\ timers' = ClearInterval(c.id)
    /\ terminated' = terminated \cup {c.id}
    /\ calls' = (calls \ {c}) \cup {[c EXCEPT !.pc = "results"]}
    /\ ev' = Ev("statusDone", c.id, FALSE, "results")
    /\ UNCHANGED <<currentStep, left, alerts>>

\* Mutant of OnStatusFailed: clearInterval(interval) is left out.
OnStatusFailedNoClear(c) ==
    /\ timers' = timers
    /\ terminated' = terminated \cup {c.id}
    /\ calls' = calls \ {c}
    /\ ev' = Ev("statusFailed", c.id, TRUE, "none")
    /\ Alert(c.id)
    /\ SetCurrentStep("upload")

\* status === 'failed': clearInterval, alert, setCurrentStep('upload')
OnStatusFailed(c) ==
    /\ timers' = ClearInterval(c.id)
    /\ terminated' = terminated \cup {c.id}
    /\ calls' = calls \ {c}
    /\ ev' = Ev("statusFailed", c.id, TRUE, "none")
    /\ Alert(c.id)
    /\ SetCurrentStep("upload")

\* any other status: the callback returns
OnStatusOther(c) ==
    /\ calls' = calls \ {c}
    /\ ev' = Ev("statusUpdate", c.id, FALSE, "none")
    /\ UNCHANGED <<timers, terminated, currentStep, left, alerts>>

\* GET /api/grade/{id} answered ok
StatusOk(c) ==
    /\ c \in calls
    /\ c.pc = "status"
    /\ \E d \in StatusDataFor(backend[c.id]) :
          /\ progress' = d.progress
          /\ message' = d.message
          /\ lastSeq' = [lastSeq EXCEPT ![c.id] = c.seq]
          /\ CASE d.status = "done"   -> OnStatusDone(c)
               [] d.status = "failed" -> OnStatusFailed(c)
               [] OTHER               -> OnStatusOther(c)
    /\ UNCHANGED <<jobId, results, nsel, submits, nticks, backend>>
    /\ UNCHANGED <<tickBudget, zoneVars, viewVars>>

\* Mutant of Catch: the error is logged, the view state is left as it is.
CatchNoUpload(c, act) ==
    /\ timers' = ClearInterval(c.id)
    /\ calls' = calls \ {c}
    /\ ev' = Ev(act, c.id, TRUE, "none")
    /\ Alert(c.id)
    /\ UNCHANGED <<currentStep, left>>

\* catch of the interval callback: clearInterval, alert, setCurrentStep('upload')
Catch(c, act) ==
    /\ timers' = ClearInterval(c.id)
    /\ calls' = calls \ {c}
    /\ ev' = Ev(act, c.id, TRUE, "none")
    /\ Alert(c.id)
    /\ SetCurrentStep("upload")

\* GET /api/grade/{id} rejected or not ok
StatusError(c) ==
    /\ c \in calls
    /\ c.pc = "status"
    /\ Catch(c, "statusError")
    /\ terminated' = terminated \cup {c.id}
    /\ UNCHANGED <<jobId, progress, message, results, nsel, submits, nticks, backend,
                   lastSeq>>
    /\ UNCHANGED <<tickBudget, zoneVars, viewVars>>

\* Mutant of ResultsOk: setResults(resultsData) is left out.
ResultsOkNoSetResults(c) ==
    /\ c \in calls
    /\ c.pc = "results"
    /\ calls' = calls \ {c}
    /\ SetCurrentStep("results")
    /\ ev' = Ev("resultsOk", c.id, FALSE, "none")
    /\ UNCHANGED <<jobId, progress, message, results, nsel, submits, timers, nticks,
                   backend, lastSeq, terminated, alerts>>
    /\ UNCHANGED <<tickBudget, zoneVars, viewVars>>

\* GET /api/results/{id} answered ok: setResults, setCurrentStep('results')
ResultsOk(c) ==
    /\ c \in calls
    /\ c.pc = "results"
    /\ calls' = calls \ {c}
    /\ results' = ResultsData(c.id)
    /\ SetCurrentStep("results")
    /\ ev' = Ev("resultsOk", c.id, FALSE, "none")
    /\ UNCHANGED <<jobId, progress, message, nsel, submits, timers, nticks, backend,
                   lastSeq, terminated, alerts>>
    /\ UNCHANGED <<tickBudget, zoneVars, viewVars>>

\* GET /api/results/{id} rejected or not ok
ResultsError(c) ==
    /\ c \in calls
    /\ c.pc = "results"
    /\ Catch(c, "resultsError")
    /\ UNCHANGED <<jobId, progress, message, results, nsel, submits, nticks, backend,
                   lastSeq, terminated>>
    /\ UNCHANGED <<tickBudget, zoneVars, viewVars>>

\* Mutant of HandleReset: setProgress(0) and setMessage('') are left out.
HandleResetKeepsDisplay ==
    /\ currentStep = "results"
    /\ results # NULL
    /\ SetCurrentStep("upload")
    /\ jobId' = NULL
    /\ results' = NULL
    /\ ev' = Ev("reset", NULL, FALSE, "none")
    /\ UNCHANGED <<progress, message, nsel, submits, timers, nticks, calls, backend,
                   lastSeq, terminated, alerts>>
    /\ UNCHANGED <<tickBudget, zoneVars, viewVars>>

\* handleReset, reachable through the Grade Another button of the results view
HandleReset ==
    /\ currentStep = "results"
    /\ results # NULL
    /\ SetCurrentStep("upload")
    /\ jobId' = NULL
    /\ progress' = InitialProgress
    /\ message' = ""
    /\ results' = NULL
    /\ ev' = Ev("reset", NULL, FALSE, "none")
    /\ UNCHANGED <<nsel, submits, timers, nticks, calls, backend, lastSeq, terminated,
                   alerts>>
    /\ UNCHANGED <<tickBudget, zoneVars, viewVars>>

CallRecords ==
    [id : Jobs, seq : 1..(MaxTicks + MaxLiveTicks), pc : {"status", "results"}]

AppInit ==
    /\ currentStep = "upload"
    /\ jobId = NULL
    /\ progress = InitialProgress
    /\ message = ""
    /\ results = NULL
    /\ nsel = 0
    /\ submits = {}
    /\ timers = {}
    /\ nticks = 0
    /\ calls = {}
    /\ backend = [j \in Jobs |-> "none"]
    /\ lastSeq = [j \in Jobs |-> 0]
    /\ terminated = {}
    /\ left = {}
    /\ ev = Ev("init", NULL, FALSE, "none")
    /\ alerts = [j \in Jobs |-> 0]

ZoneInit ==
    /\ isDragging = FALSE
    /\ dialogOpen = FALSE
    /\ selected = <<>>
    /\ zev = ZEv("mount", <<>>, FALSE)

\* No ResultsView is mounted
ViewInit ==
    /\ grade = <<>>
    /\ gradeColor = NoColor

\* App renders <UploadZone onFileSelect={handleFileSelect} isProcessing={false} />
Init ==
    /\ AppInit
    /\ ZoneInit
    /\ ViewInit
    /\ isProcessing = FALSE
    /\ tickBudget = MaxTicks

Next ==
    \/ SelectFile
    \/ \E s \in Jobs : SubmitOk(s)
    \/ \E s \in Jobs : SubmitError(s)
    \/ \E id \in Jobs : Tick(id)
    \/ \E id \in Jobs : BackendFinish(id)
    \/ \E c \in CallRecords : StatusOk(c)
    \/ \E c \in CallRecords : StatusError(c)
    \/ \E c \in CallRecords : ResultsOk(c)
    \/ \E c \in CallRecords : ResultsError(c)
    \/ HandleReset

Spec == Init /\ [][Next]_vars

\* The UploadZone on its own, mounted with either value of its isProcessing prop
InitZone ==
    /\ AppInit
    /\ ZoneInit
    /\ ViewInit
    /\ isProcessing \in BOOLEAN
    /\ tickBudget = MaxTicks

NextZone ==
    \/ ZoneClick
    \/ ButtonClick
    \/ FileInputChange
    \/ DialogCancel
    \/ DragOver
    \/ DragLeave
    \/ Drop

SpecZone == InitZone /\ [][NextZone]_vars

\* The ResultsView on its own, mounted with any grade
InitGrade ==
    /\ AppInit
    /\ ZoneInit
    /\ isProcessing = FALSE
    /\ tickBudget = MaxTicks
    /\ grade \in Grades
    /\ gradeColor = NoColor

NextGrade ==
    \/ RenderGrade
    \/ NewGrade

SpecGrade == InitGrade /\ [][NextGrade]_vars

\* Jobs that do not compete, whose requests all succeed and whose backend run
\* ends in done.

\* A file is selected while nothing of an earlier job is pending and the timers
\* can still fire
LiveSelect ==
    /\ submits = {}
    /\ timers = {}
    /\ calls = {}
    /\ nticks < tickBudget
    /\ SelectFile

\* The backend finishes the job successfully
BackendDone(id) ==
    /\ BackendFinish(id)
    /\ backend'[id] = "done"

\* A successful status response; the backend reports done at the latest in the
\* answer to the last request the timers make.
LiveStatusOk(c) ==
    /\ c.seq = tickBudget => backend[c.id] = "done"
    /\ StatusOk(c)

NextLive ==
    \/ LiveSelect
    \/ \E s \in Jobs : SubmitOk(s)
    \/ \E id \in Jobs : Tick(id)
    \/ \E id \in Jobs : BackendDone(id)
    \/ \E c \in CallRecords : LiveStatusOk(c)
    \/ \E c \in CallRecords : ResultsOk(c)
    \/ HandleReset

\* The timer keeps firing, the backend keeps working and every request is answered
LiveFairness ==
    /\ WF_vars(\E id \in Jobs : Tick(id))
    /\ WF_vars(\E id \in Jobs : BackendDone(id))
    /\ WF_vars(\E c \in CallRecords : LiveStatusOk(c))
    /\ WF_vars(\E c \in CallRecords : ResultsOk(c))

InitLive ==
    /\ AppInit
    /\ ZoneInit
    /\ ViewInit
    /\ isProcessing = FALSE
    /\ tickBudget = MaxLiveTicks

SpecLive == InitLive /\ [][NextLive]_vars /\ LiveFairness

(* ------------------------------ claims ---------------------------------- *)

AllowedChanges ==
    { <<"upload", "processing">>, <<"processing", "results">>,
      <<"processing", "upload">>, <<"results", "upload">> }

\* C1: every change of the view state is one of upload->processing,
\* processing->results, processing->upload, results->upload.
C1_OnlyAllowedChanges ==
    [][currentStep' # currentStep => <<currentStep, currentStep'>> \in AllowedChanges]_vars

C3_ResultsIffResultsStep ==
    (results # NULL) <=> (currentStep = "results")

\* C4: at most one polling timer is active at any moment.
C4_AtMostOneTimer ==
    Cardinality(timers) <= 1

\* C5: once a tick of a job has seen done or failed, or its status request has
\* failed, the job's timer is cancelled, no status request is issued for the job
\* any more, and on failure the view state is upload.
C5_TerminalStopsPolling ==
    /\ \A j \in terminated : j \notin timers
    /\ ev.req = "status" => ev.job \notin terminated
    /\ ev.act \in {"statusError", "statusFailed"} => currentStep = "upload"

\* C5 witness: a status request of a job has failed while the timers could still fire.
C5_Witness ==
    /\ ev.act = "statusError"
    /\ ev.job \in terminated
    /\ nticks < tickBudget

\* C6: after the view has left processing, no status or results request is
\* issued for the job that was being processed.
C6_NoRequestAfterLeaving ==
    ev.req \in {"status", "results"} => ev.job \notin left

FailureActs ==
    {"submitError", "statusError", "statusFailed", "resultsError"}

\* C7: each of the four failure kinds raises an alert and sets the view state to
\* upload in the same step, issues no request in that step, and leaves nothing
\* behind that would repeat the failed request (no pending submission of that
\* file, no timer of that job).
C7_FailuresHandledAlike ==
    ev.act \in FailureActs =>
        /\ ev.alert
        /\ currentStep = "upload"
        /\ ev.req = "none"
        /\ ev.job \notin submits
        /\ ev.job \notin timers

\* C7 witness: a results fetch has failed (the last of the four kinds to be reachable).
C7_Witness ==
    /\ ev.act = "resultsError"
    /\ ev.alert

\* C8: within one job, status responses are applied in the order of their requests.
C8_ResponsesInRequestOrder ==
    [][\A j \in Jobs : lastSeq'[j] >= lastSeq[j]]_vars

\* C9: onFileSelect is never called with a file whose type does not begin with image/.
C9_OnlyImagesSelected ==
    \A i \in 1..Len(selected) : StartsWith(selected[i].type, ImagePrefix)

\* C10: while isProcessing is true no interaction calls onFileSelect (nor opens
\* the file dialog that could lead to a call).
C10_NoSelectWhileProcessing ==
    isProcessing => (selected = <<>> /\ ~zev.called /\ ~dialogOpen)

\* C10 witness: an image file was dropped on the zone while isProcessing was true.
C10_Witness ==
    /\ isProcessing
    /\ zev.kind = "drop"
    /\ HandleDropCalls(zev.files)

\* C12: reset taken in the results state yields exactly the initial state of the
\* five state fields: upload, jobId null, progress 0, message empty, results null.
C12_ResetYieldsInitialState ==
    ev.act = "reset" =>
        /\ currentStep = "upload"
        /\ jobId = NULL
        /\ progress = InitialProgress
        /\ message = ""
        /\ results = NULL

\* C12 witness: reset has just been taken after a job ran to its results.
C12_Witness ==
    /\ ev.act = "reset"
    /\ nsel > 0
    /\ \E j \in Jobs : backend[j] = "done"

\* C13: getGradeColor buckets by the first character only: A.. best tier, B..
\* second, C.. third, everything else (empty, lower case, other letters) worst.
C13_BucketByFirstChar ==
    gradeColor # NoColor =>
        /\ (Len(grade) > 0 /\ grade[1] = "A") => gradeColor = GradientA
        /\ (Len(grade) > 0 /\ grade[1] = "B") => gradeColor = GradientB
        /\ (Len(grade) > 0 /\ grade[1] = "C") => gradeColor = GradientC
        /\ (Len(grade) = 0 \/ grade[1] \notin {"A", "B", "C"}) =>
                gradeColor = GradientWorst

\* C13 witness: the grade "A-" has been rendered in the colour of the best tier.
C13_Witness ==
    /\ grade = <<"A", "-">>
    /\ gradeColor = GradientA

\* C14: for one job at most one interval callback (status request or its
\* follow-up results fetch) is outstanding at any time.
C14_OneRequestOutstanding ==
    \A j \in Jobs : Cardinality({c \in calls : c.id = j}) <= 1

\* C15: whenever the view state is results, results is non-null.
C15_ResultsStepHasResults ==
    currentStep = "results" => results # NULL

\* C15 witness: the view is in results while a callback of an overlapping tick is
\* still in flight.
C15_Witness ==
    /\ currentStep = "results"
    /\ calls # {}

\* C16: while the view is processing the file selected last, every change of
\* progress, message, results or the view state is made by a handler of that
\* selection.
C16_JobIsolation ==
    [][ ( /\ currentStep = "processing"
          /\ <<progress, message, results, currentStep>>' #
                <<progress, message, results, currentStep>> )
        => ev'.job = nsel ]_vars

\* C17: each submitted file raises at most one failure alert.
C17_AtMostOneAlert ==
    \A j \in Jobs : alerts[j] <= 1

\* C11: when the submission has succeeded with a job id, every request succeeds
\* and the backend ends in done, the view state eventually is results and the
\* stored results are the payload of the results endpoint for that job id.
C11_EventuallyResults ==
    \A j \in Jobs :
        (ev.act = "submitOk" /\ ev.job = j)
            ~> (currentStep = "results" /\ results = ResultsData(j))

\* C11 witness: the view shows the results of job 1, which took more than one
\* timer firing.
C11_Witness ==
    /\ currentStep = "results"
    /\ results = ResultsData(1)
    /\ ev.act = "resultsOk"
    /\ lastSeq[1] > 1

====
